---- MODULE Spec2Model ----
(***************************************************************************)
(* Weight2Plate (src/main.py): the greedy plate calculator, the drop-set   *)
(* arithmetic of the page, and the JSON preset store.                      *)
(*                                                                         *)
(* Weights are Python floats.  A float is modelled as the exact dyadic     *)
(* rational it denotes: a sign and a natural numerator over 2^FracBits,    *)
(* the numerator held as little-endian limbs below Base because it does    *)
(* not fit one integer.  Every arithmetic operation computes the exact     *)
(* result and rounds it to Precision significant bits, ties to even, as    *)
(* IEEE 754 binary64 does.  The model is exact as long as no result is     *)
(* nonzero and below 2^(Precision - FracBits), which holds for every       *)
(* value the modelled inputs produce.                                      *)
(***************************************************************************)
EXTENDS Integers, Naturals, Sequences, FiniteSets, TLC

\* ------------------------------------------------------------------------
\* Naturals of any size: little-endian limbs, no high zero limb, 0 = << >>
\* ------------------------------------------------------------------------
LimbBits == 14
Base == 2^LimbBits

Limb(a, i) == IF i <= Len(a) THEN a[i] ELSE 0

RECURSIVE BNorm(_)
BNorm(a) ==
    IF a = << >> THEN << >>
    ELSE IF a[Len(a)] = 0 THEN BNorm(SubSeq(a, 1, Len(a) - 1))
    ELSE a

RECURSIVE BFromInt(_)
BFromInt(n) == IF n = 0 THEN << >> ELSE <<n % Base>> \o BFromInt(n \div Base)

RECURSIVE BToInt(_)
BToInt(a) == IF a = << >> THEN 0 ELSE a[1] + Base * BToInt(Tail(a))

RECURSIVE BAddFrom(_, _, _, _)
BAddFrom(a, b, i, c) ==
    IF i > Len(a) /\ i > Len(b)
    THEN (IF c = 0 THEN << >> ELSE <<c>>)
    ELSE LET s == Limb(a, i) + Limb(b, i) + c
         IN  <<s % Base>> \o BAddFrom(a, b, i + 1, s \div Base)

BAdd(a, b) == BAddFrom(a, b, 1, 0)

\* a - b for a >= b
RECURSIVE BSubFrom(_, _, _, _)
BSubFrom(a, b, i, br) ==
    IF i > Len(a) THEN << >>
    ELSE LET d == Limb(a, i) - Limb(b, i) - br
         IN  IF d < 0
             THEN <<d + Base>> \o BSubFrom(a, b, i + 1, 1)
             ELSE <<d>> \o BSubFrom(a, b, i + 1, 0)

BSub(a, b) == BNorm(BSubFrom(a, b, 1, 0))

\* -1, 0, 1 as a < b, a = b, a > b
RECURSIVE BCmpFrom(_, _, _)
BCmpFrom(a, b, i) ==
    IF i = 0 THEN 0
    ELSE IF a[i] < b[i] THEN -1
    ELSE IF a[i] > b[i] THEN 1
    ELSE BCmpFrom(a, b, i - 1)

BCmp(a, b) ==
    IF Len(a) < Len(b) THEN -1
    ELSE IF Len(a) > Len(b) THEN 1
    ELSE BCmpFrom(a, b, Len(a))

\* a * k for 0 <= k < Base
RECURSIVE BMulSmallFrom(_, _, _, _)
BMulSmallFrom(a, k, i, c) ==
    IF i > Len(a)
    THEN (IF c = 0 THEN << >> ELSE <<c>>)
    ELSE LET p == a[i] * k + c
         IN  <<p % Base>> \o BMulSmallFrom(a, k, i + 1, p \div Base)

BMulSmall(a, k) == IF k = 0 THEN << >> ELSE BMulSmallFrom(a, k, 1, 0)

Zeros(n) == [i \in 1..n |-> 0]

RECURSIVE BMulFrom(_, _, _)
BMulFrom(a, b, i) ==
    IF i > Len(b) THEN << >>
    ELSE BAdd(IF b[i] = 0 \/ a = << >> THEN << >>
              ELSE Zeros(i - 1) \o BMulSmall(a, b[i]),
              BMulFrom(a, b, i + 1))

BMul(a, b) == BMulFrom(a, b, 1)

\* <<quotient limbs (little-endian, not normalised), remainder>> of a by k,
\* 0 < k < Base, long division from the highest limb
RECURSIVE BDivModFrom(_, _, _, _)
BDivModFrom(a, k, i, r) ==
    IF i = 0 THEN << << >>, r >>
    ELSE LET cur  == r * Base + a[i]
             rest == BDivModFrom(a, k, i - 1, cur % k)
         IN  << rest[1] \o <<cur \div k>>, rest[2] >>

BDivSmall(a, k) == BNorm(BDivModFrom(a, k, Len(a), 0)[1])
BModSmall(a, k) == BDivModFrom(a, k, Len(a), 0)[2]

BShl(a, n) ==
    IF a = << >> THEN << >>
    ELSE Zeros(n \div LimbBits) \o BMulSmall(a, 2^(n % LimbBits))

BShr(a, n) ==
    IF Len(a) <= n \div LimbBits THEN << >>
    ELSE BDivSmall(SubSeq(a, n \div LimbBits + 1, Len(a)), 2^(n % LimbBits))

RECURSIVE IntBitLen(_)
IntBitLen(n) == IF n = 0 THEN 0 ELSE 1 + IntBitLen(n \div 2)

BBitLen(a) ==
    IF a = << >> THEN 0 ELSE LimbBits * (Len(a) - 1) + IntBitLen(a[Len(a)])

BIsOdd(a) == a # << >> /\ a[1] % 2 = 1

\* ------------------------------------------------------------------------
\* Python float arithmetic
\* ------------------------------------------------------------------------
Precision == 53     \* significant bits of a float
FracBits == 60      \* a float x is held as the numerator x * 2^FracBits
GuardBits == 64     \* extra quotient bits computed before a division rounds

\* a natural rounded to Precision significant bits, ties to even
RoundNearestEven(a) ==
    LET s == BBitLen(a) - Precision
    IN  IF s <= 0 THEN a
        ELSE LET q    == BShr(a, s)
                 r    == BSub(a, BShl(q, s))
                 half == BShl(<<1>>, s - 1)
                 c    == BCmp(r, half)
                 up   == c = 1 \/ (c = 0 /\ BIsOdd(q))
             IN  BShl(IF up THEN BAdd(q, <<1>>) ELSE q, s)

Float(neg, mag) == [neg |-> neg /\ mag # << >>, mag |-> mag]

FromInt(n) ==
    IF n < 0 THEN Float(TRUE, BShl(BFromInt(-n), FracBits))
    ELSE Float(FALSE, BShl(BFromInt(n), FracBits))

\* the float h / 2 for an integer h: 2.5 is FromHalves(5)
FromHalves(h) ==
    IF h < 0 THEN Float(TRUE, BShl(BFromInt(-h), FracBits - 1))
    ELSE Float(FALSE, BShl(BFromInt(h), FracBits - 1))

FNeg(x) == Float(~x.neg, x.mag)

\* x + y
FAdd(x, y) ==
    IF x.neg = y.neg THEN Float(x.neg, RoundNearestEven(BAdd(x.mag, y.mag)))
    ELSE IF BCmp(x.mag, y.mag) >= 0
         THEN Float(x.neg, RoundNearestEven(BSub(x.mag, y.mag)))
         ELSE Float(y.neg, RoundNearestEven(BSub(y.mag, x.mag)))

\* x - y
FSub(x, y) == FAdd(x, FNeg(y))

\* x * y
FMul(x, y) ==
    Float(x.neg # y.neg, BShr(RoundNearestEven(BMul(x.mag, y.mag)), FracBits))

\* x / n for an integer n in 1..Base-1: the quotient with a sticky bit, rounded
FDivInt(x, n) ==
    LET t == BShl(x.mag, GuardBits)
        q == BDivSmall(t, n)
        sticky == IF BModSmall(t, n) = 0 THEN << >> ELSE <<1>>
    IN  Float(x.neg, BShr(RoundNearestEven(BAdd(BShl(q, 1), sticky)), GuardBits + 1))

\* x < y
FLess(x, y) ==
    IF x.neg /\ ~y.neg THEN TRUE
    ELSE IF ~x.neg /\ y.neg THEN FALSE
    ELSE IF x.neg THEN BCmp(x.mag, y.mag) = 1
    ELSE BCmp(x.mag, y.mag) = -1

FZero == FromInt(0)

\* the float n / 8 for an integer n >= 0: 0.625 is FromEighths(5)
FromEighths(n) == Float(FALSE, BShl(BFromInt(n), FracBits - 3))

\* int(x // (d / 2)) for a denomination of d half-pounds: Python's float floor
\* division is exact (it is computed from fmod) and rounds towards minus
\* infinity
FloorDivHalves(x, d) ==
    LET q == BDivSmall(BShr(x.mag, FracBits - 1), d)
        exact == BShl(BMulSmall(q, d), FracBits - 1) = x.mag
    IN  IF ~x.neg THEN BToInt(q)
        ELSE IF exact THEN -BToInt(q)
        ELSE -BToInt(q) - 1

\* ------------------------------------------------------------------------
\* Program constants
\* ------------------------------------------------------------------------
\* the available plates, in half-pounds: [45, 35, 25, 10, 5, 2.5] lbs
PLATES_LBS == <<90, 70, 50, 20, 10, 5>>

BARBELL_TYPES ==
    [t \in {"Olympic (20kg/44lbs)", "Standard (45lbs)",
            "Women's Olympic (15kg/33lbs)", "Technique Bar (15lbs)",
            "EZ Curl Bar (18lbs)"} |->
        CASE t = "Olympic (20kg/44lbs)" -> 44
          [] t = "Standard (45lbs)" -> 45
          [] t = "Women's Olympic (15kg/33lbs)" -> 33
          [] t = "Technique Bar (15lbs)" -> 15
          [] t = "EZ Curl Bar (18lbs)" -> 18]

BarbellNames == DOMAIN BARBELL_TYPES
BarWeights == {BARBELL_TYPES[t] : t \in BarbellNames}

\* ------------------------------------------------------------------------
\* calculate_plates
\* ------------------------------------------------------------------------
\* a slip: the sign of the difference is dropped
PerSideWeightAbs(target_weight, bar_weight) ==
    LET d == FDivInt(FSub(target_weight, FromInt(bar_weight)), 2)
    IN  Float(FALSE, d.mag)

\* remaining_weight = (target_weight - bar_weight) / 2, the weight per side
PerSideWeight(target_weight, bar_weight) ==
    FDivInt(FSub(target_weight, FromInt(bar_weight)), 2)

\* a slip: the loop leaves out the last, smallest plate
RECURSIVE PlateLoopSkipsSmallest(_, _)
PlateLoopSkipsSmallest(remaining, i) ==
    IF i >= Len(PLATES_LBS) THEN << >>
    ELSE LET plate == PLATES_LBS[i]
             count == FloorDivHalves(remaining, plate)
         IN  IF count > 0
             THEN [j \in 1..count |-> plate]
                  \o PlateLoopSkipsSmallest(
                        FSub(remaining, FMul(FromHalves(plate), FromInt(count))), i + 1)
             ELSE PlateLoopSkipsSmallest(remaining, i + 1)

\* a slip: one plate is taken off remaining_weight, whatever the count
RECURSIVE PlateLoopForgetsCount(_, _)
PlateLoopForgetsCount(remaining, i) ==
    IF i > Len(PLATES_LBS) THEN << >>
    ELSE LET plate == PLATES_LBS[i]
             count == FloorDivHalves(remaining, plate)
         IN  IF count > 0
             THEN [j \in 1..count |-> plate]
                  \o PlateLoopForgetsCount(FSub(remaining, FromHalves(plate)), i + 1)
             ELSE PlateLoopForgetsCount(remaining, i + 1)

\* the loop over the plates from plates[i] on, with remaining_weight left
RECURSIVE PlateLoop(_, _)
PlateLoop(remaining, i) ==
    IF i > Len(PLATES_LBS) THEN << >>
    ELSE LET plate == PLATES_LBS[i]
             count == FloorDivHalves(remaining, plate)
         IN  IF count > 0
             THEN [j \in 1..count |-> plate]
                  \o PlateLoop(FSub(remaining, FMul(FromHalves(plate), FromInt(count))),
                               i + 1)
             ELSE PlateLoop(remaining, i + 1)

\* from the negative check to the return: the plates for one side's weight
PlatesForSide(remaining) ==
    IF FLess(remaining, FZero) THEN << >> ELSE PlateLoop(remaining, 1)

calculate_plates(target_weight, bar_weight) ==
    PlatesForSide(PerSideWeight(target_weight, bar_weight))

\* the total weight of a plate list, in half-pounds
RECURSIVE TotalHalves(_)
TotalHalves(plates) ==
    IF plates = << >> THEN 0 ELSE Head(plates) + TotalHalves(Tail(plates))

\* ------------------------------------------------------------------------
\* The drop-set arithmetic of main, on Calculate
\* ------------------------------------------------------------------------
FinalSetWeight(side_weight, bar_weight) ==
    FAdd(FMul(side_weight, FromInt(2)), FromInt(bar_weight))

\* a slip: the percentage itself, not what is left of 100
DropSideWeightOfPercent(set_weight, percent) ==
    FMul(set_weight, FDivInt(percent, 100))

DropSideWeight(set_weight, percent) ==
    FMul(set_weight, FSub(FromInt(1), FDivInt(percent, 100)))

RemainingWeight(set_weight, drop_weight) == FSub(set_weight, drop_weight)

RemainingWeightPerSide(remaining, bar_weight) ==
    FDivInt(FSub(remaining, FromInt(bar_weight)), 2)

\* a slip: the side weight is not doubled
DropSetTargetNotDoubled(per_side, bar_weight) ==
    FAdd(per_side, FromInt(bar_weight))

\* the first argument of the second calculate_plates call
DropSetTarget(per_side, bar_weight) ==
    FAdd(FMul(per_side, FromInt(2)), FromInt(bar_weight))

\* ------------------------------------------------------------------------
\* configurations.json
\* ------------------------------------------------------------------------
\* The text of the file is a sequence of tokens: "[", "]", "," and, for every
\* saved dictionary, as many "obj" tokens as its text is long (the length
\* varies with the name).  A float is written as its decimal text, held as
\* the number of tenths, and read back as the float nearest to that decimal.

NameLength(name) == IF name = "bb" THEN 2 ELSE 1

ObjWidth(name) == NameLength(name) + 1

\* repr of a float x >= 0 with one decimal digit: 72.5 is written 725 tenths
ToTenths(x) == BToInt(BShr(BMulSmall(x.mag, 10), FracBits))

\* float of a decimal text
FromTenths(n) == FDivInt(FromInt(n), 10)

Token(sym, name, side, type, pct, part) ==
    [sym |-> sym, name |-> name, final_side_weight |-> side,
     barbell_type |-> type, percent_drop |-> pct, part |-> part]

Punct(sym) == Token(sym, "", 0, "", 0, 0)

\* the dictionary save_configuration builds
Config(name, side_weight, type, percent) ==
    [name |-> name, final_side_weight |-> side_weight,
     barbell_type |-> type, percent_drop |-> percent]

ObjTokens(c) ==
    [i \in 1..ObjWidth(c.name) |->
        Token("obj", c.name, ToTenths(c.final_side_weight), c.barbell_type,
              ToTenths(c.percent_drop), i)]

RECURSIVE DumpItems(_, _)
DumpItems(configs, i) ==
    IF i > Len(configs) THEN << >>
    ELSE (IF i > 1 THEN <<Punct(",")>> ELSE << >>)
         \o ObjTokens(configs[i]) \o DumpItems(configs, i + 1)

\* json.dump of a list of dictionaries
Dump(configs) == <<Punct("[")>> \o DumpItems(configs, 1) \o <<Punct("]")>>

\* the dictionary whose text starts at token i, if a whole one does
ObjAt(text, i) ==
    LET w == ObjWidth(text[i].name)
    IN  IF /\ text[i].sym = "obj"
           /\ i + w - 1 <= Len(text)
           /\ \A j \in 0..(w - 1) :
                 text[i + j] = [text[i] EXCEPT !.part = j + 1]
        THEN <<Config(text[i].name, FromTenths(text[i].final_side_weight),
                      text[i].barbell_type, FromTenths(text[i].percent_drop))>>
        ELSE << >>

\* the items from token i on, after the dictionaries in acc: a dictionary,
\* then "," and more items or "]" and the end of the text
RECURSIVE LoadItems(_, _, _)
LoadItems(text, i, acc) ==
    IF i > Len(text) \/ ObjAt(text, i) = << >>
    THEN [ok |-> FALSE, configs |-> << >>]
    ELSE LET next == i + ObjWidth(text[i].name)
             got  == acc \o ObjAt(text, i)
         IN  IF next > Len(text) THEN [ok |-> FALSE, configs |-> << >>]
             ELSE IF text[next].sym = "]"
                  THEN [ok |-> next = Len(text),
                        configs |-> IF next = Len(text) THEN got ELSE << >>]
             ELSE IF text[next].sym = ","
                  THEN LoadItems(text, next + 1, got)
             ELSE [ok |-> FALSE, configs |-> << >>]

\* json.load: the list, or ok = FALSE where json.load raises JSONDecodeError
Load(text) ==
    IF Len(text) < 2 \/ text[1].sym # "["
    THEN [ok |-> FALSE, configs |-> << >>]
    ELSE IF text[2].sym = "]"
         THEN [ok |-> Len(text) = 2, configs |-> << >>]
         ELSE LoadItems(text, 2, << >>)

\* a slip: the new dictionary is not appended
AppendConfigForgotten(configs, c) == configs

\* configurations.append(config)
AppendConfig(configs, c) == Append(configs, c)

\* open(..., "w") empties the file
Truncated == [exists |-> TRUE, text |-> << >>]

\* the file after text is written at offset 0 of what it holds
Written(f, text) ==
    [exists |-> TRUE,
     text |-> text \o SubSeq(f.text, Len(text) + 1, Len(f.text))]

NoFile == [exists |-> FALSE, text |-> << >>]

\* load_configurations
load_configurations(f) ==
    IF ~f.exists THEN [ok |-> TRUE, configs |-> << >>] ELSE Load(f.text)

\* the first saved configuration with the name, as main's next(...) finds it
RECURSIVE FirstNamed(_, _)
FirstNamed(configs, name) ==
    IF configs = << >> THEN << >>
    ELSE IF Head(configs).name = name THEN <<Head(configs)>>
    ELSE FirstNamed(Tail(configs), name)

ConfigNames(configs) == {configs[i].name : i \in 1..Len(configs)}

\* ------------------------------------------------------------------------
\* Bounds and inputs
\* ------------------------------------------------------------------------
MaxSideSteps == 40      \* the side weight goes up to MaxSideSteps * 2.5 lbs
MaxTargetSteps == 100   \* target weights go up to MaxTargetSteps * 2.5 lbs
TinyBits == 40          \* targets also lie 2^-TinyBits beside a 2.5 lbs step
MaxPairSteps == 24      \* pairs of calls: targets up to MaxPairSteps * 5 lbs
MaxRecords == 2         \* a save starts while the file holds fewer records

SideStepHalves == 5     \* step=2.5 of the side weight input
PercentStep == 5        \* step=5.0 of the percent input
MaxPercent == 100       \* max_value=100.0 of the percent input

Tiny(e) ==
    IF e = 0 THEN FZero ELSE Float(e < 0, BShl(<<1>>, FracBits - TinyBits))

TargetWeights ==
    {FAdd(FromHalves(5 * k), Tiny(e)) : k \in 0..MaxTargetSteps, e \in {-1, 0, 1}}

PairTargets == {FromInt(5 * k) : k \in 0..MaxPairSteps}

\* the largest float below a positive float x
Below(x) ==
    LET m == BSub(x.mag, <<1>>)
        s == BBitLen(m) - Precision
    IN  Float(FALSE, BShl(BShr(m, s), s))

\* side weights typed rather than stepped to: the floats just below the three
\* lightest plates, 2.4999999999999996, 4.999999999999999 and 9.999999999999998
TypedSideWeights == {Below(FromHalves(PLATES_LBS[i])) : i \in 4..Len(PLATES_LBS)}

\* what the store's page types or selects, and the names it saves under
Names == {"a", "bb"}
StoreSideWeights == {FromHalves(140), FromHalves(145)}
StorePercents == {FromInt(75), FromInt(50)}
StoreBarbells == {"Olympic (20kg/44lbs)", "Standard (45lbs)"}

Sessions == {1, 2}

\* ------------------------------------------------------------------------
\* State
\* ------------------------------------------------------------------------
VARIABLES
    target_weight, bar_weight,  \* the arguments of a call of calculate_plates
    called,                     \* the call has returned
    combination,                \* what it returned
    other_target_weight, other_bar_weight,   \* a second call, and
    other_combination,                       \* what it returned
    final_side_weight, barbell_type, percent_drop,   \* the widgets of the page
    selected_config,            \* the saved configuration selected, or ""
    calculated,                 \* the page shows the result of Calculate
    final_set_weight, drop_side_weight, remaining_weight,
    remaining_weight_per_side, final_plates, drop_plates,
    file,                       \* configurations.json
    pc,                         \* where each session is in save_configuration
    config, configurations,     \* its locals of these names
    last_saved,                 \* history: per name, the last config saved
    overlapped,                 \* history: a save began during another one
    last_writer                 \* history: the session that wrote last, or 0

plateVars == <<target_weight, bar_weight, called, combination,
               other_target_weight, other_bar_weight, other_combination>>
widgetVars == <<final_side_weight, barbell_type, percent_drop, selected_config>>
resultVars == <<calculated, final_set_weight, drop_side_weight, remaining_weight,
                remaining_weight_per_side, final_plates, drop_plates>>
saveVars == <<pc, config, configurations, overlapped, last_writer>>
storeVars == <<file, saveVars, last_saved>>
vars == <<plateVars, widgetVars, resultVars, storeVars>>

PlateIdle ==
    /\ target_weight = FZero
    /\ bar_weight = 0
    /\ called = FALSE
    /\ combination = << >>
    /\ other_target_weight = FZero
    /\ other_bar_weight = 0
    /\ other_combination = << >>

\* main without a saved configuration selected
WidgetDefaults ==
    /\ final_side_weight = FromInt(70)
    /\ barbell_type = "Olympic (20kg/44lbs)"
    /\ percent_drop = FromInt(75)
    /\ selected_config = ""

NoResult ==
    /\ calculated = FALSE
    /\ final_set_weight = FZero
    /\ drop_side_weight = FZero
    /\ remaining_weight = FZero
    /\ remaining_weight_per_side = FZero
    /\ final_plates = << >>
    /\ drop_plates = << >>

NoConfig == Config("", FZero, "", FZero)

SaveIdle ==
    /\ pc = [s \in Sessions |-> "idle"]
    /\ config = [s \in Sessions |-> NoConfig]
    /\ configurations = [s \in Sessions |-> << >>]
    /\ overlapped = FALSE
    /\ last_writer = 0

StoreIdle ==
    /\ file = NoFile
    /\ SaveIdle
    /\ last_saved = [n \in Names |-> << >>]

\* a run of the script that does not take the Calculate branch shows no result
HideResult ==
    /\ calculated' = FALSE
    /\ final_set_weight' = FZero
    /\ drop_side_weight' = FZero
    /\ remaining_weight' = FZero
    /\ remaining_weight_per_side' = FZero
    /\ final_plates' = << >>
    /\ drop_plates' = << >>

\* ------------------------------------------------------------------------
\* calculate_plates as a function of its arguments
\* ------------------------------------------------------------------------
InitPlates ==
    /\ target_weight \in TargetWeights
    /\ bar_weight \in BarWeights
    /\ called = FALSE
    /\ combination = << >>
    /\ other_target_weight = FZero
    /\ other_bar_weight = 0
    /\ other_combination = << >>
    /\ WidgetDefaults
    /\ NoResult
    /\ StoreIdle

CallCalculatePlates ==
    /\ ~called
    /\ called' = TRUE
    /\ combination' = calculate_plates(target_weight, bar_weight)
    /\ UNCHANGED <<target_weight, bar_weight, other_target_weight,
                   other_bar_weight, other_combination>>
    /\ UNCHANGED <<widgetVars, resultVars, storeVars>>

NextPlates == CallCalculatePlates

SpecPlates == InitPlates /\ [][NextPlates]_vars

\* two calls of calculate_plates
InitTwoCalls ==
    /\ target_weight \in PairTargets
    /\ bar_weight \in BarWeights
    /\ other_target_weight \in PairTargets
    /\ other_bar_weight \in BarWeights
    /\ called = FALSE
    /\ combination = << >>
    /\ other_combination = << >>
    /\ WidgetDefaults
    /\ NoResult
    /\ StoreIdle

CallCalculatePlatesTwice ==
    /\ ~called
    /\ called' = TRUE
    /\ combination' = calculate_plates(target_weight, bar_weight)
    /\ other_combination' = calculate_plates(other_target_weight, other_bar_weight)
    /\ UNCHANGED <<target_weight, bar_weight, other_target_weight, other_bar_weight>>
    /\ UNCHANGED <<widgetVars, resultVars, storeVars>>

NextTwoCalls == CallCalculatePlatesTwice

SpecTwoCalls == InitTwoCalls /\ [][NextTwoCalls]_vars

\* ------------------------------------------------------------------------
\* The page: the three inputs and the Calculate button
\* ------------------------------------------------------------------------
Init ==
    /\ PlateIdle
    /\ WidgetDefaults
    /\ NoResult
    /\ StoreIdle

\* the side weight input, min_value=0.0, stepped up or down
SideWeightUp ==
    /\ FLess(final_side_weight, FromHalves(SideStepHalves * MaxSideSteps))
    /\ final_side_weight' = FAdd(final_side_weight, FromHalves(SideStepHalves))
    /\ HideResult
    /\ UNCHANGED <<plateVars, barbell_type, percent_drop, selected_config, storeVars>>

SideWeightDown ==
    /\ ~FLess(final_side_weight, FromHalves(SideStepHalves))
    /\ final_side_weight' = FSub(final_side_weight, FromHalves(SideStepHalves))
    /\ HideResult
    /\ UNCHANGED <<plateVars, barbell_type, percent_drop, selected_config, storeVars>>

\* a value typed into the side weight input
EnterSideWeight(v) ==
    /\ v # final_side_weight
    /\ final_side_weight' = v
    /\ HideResult
    /\ UNCHANGED <<plateVars, barbell_type, percent_drop, selected_config, storeVars>>

\* a value typed into the percent input
EnterPercent(v) ==
    /\ v # percent_drop
    /\ percent_drop' = v
    /\ HideResult
    /\ UNCHANGED <<plateVars, final_side_weight, barbell_type, selected_config,
                   storeVars>>

SelectBarbell(t) ==
    /\ t # barbell_type
    /\ barbell_type' = t
    /\ HideResult
    /\ UNCHANGED <<plateVars, final_side_weight, percent_drop, selected_config,
                   storeVars>>

\* the percent input, min_value=0.0, max_value=100.0, stepped up or down
PercentUp ==
    /\ ~FLess(FromInt(MaxPercent - PercentStep), percent_drop)
    /\ percent_drop' = FAdd(percent_drop, FromInt(PercentStep))
    /\ HideResult
    /\ UNCHANGED <<plateVars, final_side_weight, barbell_type, selected_config,
                   storeVars>>

PercentDown ==
    /\ ~FLess(percent_drop, FromInt(PercentStep))
    /\ percent_drop' = FSub(percent_drop, FromInt(PercentStep))
    /\ HideResult
    /\ UNCHANGED <<plateVars, final_side_weight, barbell_type, selected_config,
                   storeVars>>

Calculate ==
    LET bar  == BARBELL_TYPES[barbell_type]
        fsw  == FinalSetWeight(final_side_weight, bar)
        dsw  == DropSideWeight(fsw, percent_drop)
        rem  == RemainingWeight(fsw, dsw)
        rps  == RemainingWeightPerSide(rem, bar)
    IN  /\ ~calculated
        /\ calculated' = TRUE
        /\ final_set_weight' = fsw
        /\ drop_side_weight' = dsw
        /\ remaining_weight' = rem
        /\ remaining_weight_per_side' = rps
        /\ final_plates' = calculate_plates(fsw, bar)
        /\ drop_plates' = calculate_plates(DropSetTarget(rps, bar), bar)
        /\ UNCHANGED <<plateVars, widgetVars, storeVars>>

Next ==
    \/ SideWeightUp
    \/ SideWeightDown
    \/ \E v \in TypedSideWeights : EnterSideWeight(v)
    \/ \E t \in BarbellNames : SelectBarbell(t)
    \/ PercentUp
    \/ PercentDown
    \/ Calculate

Spec == Init /\ [][Next]_vars

\* ------------------------------------------------------------------------
\* The page: saving and loading configurations, one session
\* ------------------------------------------------------------------------
NumRecords(f) == Cardinality({i \in 1..Len(f.text) : f.text[i].part = 1})

\* the Save Configuration button with a name typed: save_configuration from
\* its first line to its last, with no other session at work
SaveConfiguration(name) ==
    LET c     == Config(name, final_side_weight, barbell_type, percent_drop)
        read  == load_configurations(file)
    IN  /\ NumRecords(file) < MaxRecords
        /\ read.ok
        /\ file' = Written(Truncated, Dump(AppendConfig(read.configs, c)))
        /\ last_saved' = [last_saved EXCEPT ![name] = <<c>>]
        /\ UNCHANGED <<plateVars, widgetVars, resultVars, saveVars>>

\* a saved configuration picked in the selectbox: its values fill the inputs
SelectConfiguration(name) ==
    LET read == load_configurations(file)
    IN  /\ read.ok
        /\ name \in ConfigNames(read.configs)
        /\ name # selected_config
        /\ selected_config' = name
        /\ LET data == FirstNamed(read.configs, name)[1]
           IN  /\ final_side_weight' = data.final_side_weight
               /\ barbell_type' = data.barbell_type
               /\ percent_drop' = data.percent_drop
        /\ UNCHANGED <<plateVars, resultVars, storeVars>>

NextStore ==
    \/ \E v \in StoreSideWeights : EnterSideWeight(v)
    \/ \E v \in StorePercents : EnterPercent(v)
    \/ \E t \in StoreBarbells : SelectBarbell(t)
    \/ \E n \in Names : SaveConfiguration(n)
    \/ \E n \in Names : SelectConfiguration(n)

SpecStore == Init /\ [][NextStore]_vars

\* ------------------------------------------------------------------------
\* Two sessions in save_configuration, statement by statement
\* ------------------------------------------------------------------------
Working(s) == pc[s] \in {"read", "open", "dump"}

InitRace ==
    /\ PlateIdle
    /\ WidgetDefaults
    /\ NoResult
    /\ SaveIdle
    /\ last_saved = [n \in Names |-> << >>]
    /\ \/ file = NoFile
       \/ \E n \in Names, v \in StoreSideWeights :
             file = Written(Truncated,
                            Dump(<<Config(n, v, "Standard (45lbs)", FromInt(50))>>))

\* the dictionary is built and os.path.exists is asked
SaveBegin(s, name, side_weight, type, percent) ==
    /\ pc[s] = "idle"
    /\ config' = [config EXCEPT ![s] = Config(name, side_weight, type, percent)]
    /\ pc' = [pc EXCEPT ![s] = IF file.exists THEN "read" ELSE "open"]
    /\ configurations' = [configurations EXCEPT ![s] = << >>]
    /\ overlapped' = (overlapped \/ \E o \in Sessions \ {s} : Working(o))
    /\ UNCHANGED <<plateVars, widgetVars, resultVars, file, last_saved, last_writer>>

\* the file is opened and json.load reads all of it
SaveRead(s) ==
    /\ pc[s] = "read"
    /\ LET read == Load(file.text)
       IN  /\ pc' = [pc EXCEPT ![s] = IF read.ok THEN "open" ELSE "raised"]
           /\ configurations' = [configurations EXCEPT ![s] = read.configs]
    /\ UNCHANGED <<plateVars, widgetVars, resultVars, file, last_saved, config,
                   overlapped, last_writer>>

\* the dictionary is appended and the file is opened for writing
SaveOpen(s) ==
    /\ pc[s] = "open"
    /\ configurations' =
          [configurations EXCEPT ![s] = AppendConfig(configurations[s], config[s])]
    /\ file' = Truncated
    /\ pc' = [pc EXCEPT ![s] = "dump"]
    /\ UNCHANGED <<plateVars, widgetVars, resultVars, last_saved, config,
                   overlapped, last_writer>>

\* json.dump, and the text reaches the file as it is closed
SaveDump(s) ==
    /\ pc[s] = "dump"
    /\ file' = Written(file, Dump(configurations[s]))
    /\ pc' = [pc EXCEPT ![s] = "done"]
    /\ last_writer' = s
    /\ last_saved' = [last_saved EXCEPT ![config[s].name] = <<config[s]>>]
    /\ UNCHANGED <<plateVars, widgetVars, resultVars, config, configurations,
                   overlapped>>

NextRace ==
    \E s \in Sessions :
        \/ \E n \in Names, v \in StoreSideWeights :
              SaveBegin(s, n, v, "Olympic (20kg/44lbs)", FromInt(75))
        \/ SaveRead(s)
        \/ SaveOpen(s)
        \/ SaveDump(s)

SpecRace == InitRace /\ [][NextRace]_vars

\* ------------------------------------------------------------------------
\* Properties of calculate_plates (SpecPlates)
\* ------------------------------------------------------------------------
SmallestPlate == PLATES_LBS[Len(PLATES_LBS)]

\* the per-side weight of the call in the state
CallWeight == PerSideWeight(target_weight, bar_weight)

\* x <= y
FLessEq(x, y) == ~FLess(y, x)

\* C1: for a per-side weight w >= 0 the plates returned sum to at most w, the
\* residual w - sum is strictly less than the smallest plate, 2.5, and the sum
\* is a multiple of 2.5: it is the largest multiple of 2.5 that is <= w.
C1_SumIsLargestMultiple ==
    (called /\ FLessEq(FZero, CallWeight)) =>
        LET total == TotalHalves(combination)
        IN  /\ FLessEq(FromHalves(total), CallWeight)
            /\ FLess(CallWeight, FromHalves(total + SmallestPlate))
            /\ total % SmallestPlate = 0

\* a call that returned three plates or more and left a residual
C1_Witness ==
    /\ called
    /\ Len(combination) >= 3
    /\ FLess(FromHalves(TotalHalves(combination)), CallWeight)

\* C2: when the per-side weight (target_weight - bar_weight) / 2 is negative,
\* that is when the target is below the bar, calculate_plates returns the
\* empty list.
C2_NegativeGivesNoPlates ==
    (called /\ FLess(target_weight, FromInt(bar_weight))) => combination = << >>

\* a call with a target that is positive and below the bar
C2_Witness ==
    /\ called
    /\ FLess(FZero, target_weight)
    /\ FLess(target_weight, FromInt(bar_weight))
    /\ FLess(CallWeight, FZero)

\* the per-side weight of the second call
OtherCallWeight == PerSideWeight(other_target_weight, other_bar_weight)

\* w <= w2 - 2.5 for the per-side weights w >= 0 and w2 of the two calls
SmallestPlateApart ==
    /\ FLessEq(FZero, CallWeight)
    /\ FLessEq(FAdd(CallWeight, FromHalves(SmallestPlate)), OtherCallWeight)

\* C5: for per-side weights w1 >= 0 and w2 >= w1 + 2.5 the total weight of the
\* plates returned for w2 is not less than the total returned for w1.
C5_Monotone ==
    (called /\ SmallestPlateApart) =>
        TotalHalves(combination) <= TotalHalves(other_combination)

\* two calls 2.5 lbs or more apart, the heavier one returning fewer plates
C5_Witness ==
    /\ called
    /\ SmallestPlateApart
    /\ Len(other_combination) < Len(combination)

\* the number of plates and the weight of a choice of counts, one per plate
RECURSIVE CountSum(_, _)
CountSum(c, i) == IF i > Len(c) THEN 0 ELSE c[i] + CountSum(c, i + 1)

RECURSIVE CountWeight(_, _)
CountWeight(c, i) ==
    IF i > Len(c) THEN 0 ELSE c[i] * PLATES_LBS[i] + CountWeight(c, i + 1)

\* C7: calculate_plates returns the optimal combination: no other combination
\* of plates with the same total weight uses fewer plates (a combination with
\* fewer plates has fewer of each plate than the list returned has plates).
C7_FewestPlates ==
    (called /\ FLessEq(FZero, CallWeight)) =>
        \A c \in [1..Len(PLATES_LBS) -> 0..(Len(combination) - 1)] :
            CountWeight(c, 1) = TotalHalves(combination)
            => CountSum(c, 1) >= Len(combination)

\* ------------------------------------------------------------------------
\* Properties of Calculate (Spec)
\* ------------------------------------------------------------------------
\* C3: the final-set plates are the greedy solution for the side weight
\* itself, whatever the bar: the bar is not counted twice.
C3_FinalPlatesSolveSideWeight ==
    calculated => final_plates = PlatesForSide(final_side_weight)

\* the inputs of the spec's scenario 2: 70 lbs a side, a 45 lbs bar, 75 percent
Scenario2 ==
    /\ final_side_weight = FromInt(70)
    /\ barbell_type = "Standard (45lbs)"
    /\ percent_drop = FromInt(75)

DropPlatesSolveDropSide ==
    /\ drop_plates = PlatesForSide(remaining_weight_per_side)
    /\ FLess(remaining_weight_per_side, FromHalves(SmallestPlate))
          => drop_plates = << >>

\* C4 as stated: the drop-set plates are the greedy solution for the drop
\* set's per-side weight, none when that weight is negative or below 2.5, and
\* scenario 2 gives a per-side weight of 0.625 and no drop plates.
C4_AsStated ==
    calculated =>
        /\ DropPlatesSolveDropSide
        /\ Scenario2 =>
              /\ remaining_weight_per_side = FromEighths(5)
              /\ drop_plates = << >>

\* C4 as amended: the drop-set plates are the greedy solution for the drop
\* set's per-side weight, none when that weight is negative or below 2.5, and
\* scenario 2 gives a weight to remove of 46.25, a drop set weight of 138.75,
\* a per-side weight of 46.875 and one 45 lbs plate a side.
C4_DropPlatesSolveDropSide ==
    calculated =>
        /\ DropPlatesSolveDropSide
        /\ Scenario2 =>
              /\ drop_side_weight = FromEighths(370)
              /\ remaining_weight = FromEighths(1110)
              /\ remaining_weight_per_side = FromEighths(375)
              /\ drop_plates = <<90>>

\* the result of scenario 2
C4_Witness == calculated /\ Scenario2

\* C6: with a percent drop of 0 the weight to remove is the final set weight
\* and the drop set weight is 0; with a percent drop of 100 the drop set weight
\* is the final set weight and the weight to remove is 0.
C6_PercentBoundaries ==
    calculated =>
        /\ percent_drop = FromInt(0) =>
              /\ drop_side_weight = final_set_weight
              /\ remaining_weight = FZero
        /\ percent_drop = FromInt(MaxPercent) =>
              /\ remaining_weight = final_set_weight
              /\ drop_side_weight = FZero

\* a result for a percent drop of 0 with plates on the final set
C6_Witness ==
    /\ calculated
    /\ percent_drop = FromInt(0)
    /\ final_plates # << >>

\* ------------------------------------------------------------------------
\* Properties of the store (SpecStore)
\* ------------------------------------------------------------------------
FileConfigs == load_configurations(file)

\* C8: the name is a unique key of the store: after any sequence of saves the
\* file holds at most one record with any given name.
C8_NamesUnique ==
    \A i, j \in 1..Len(FileConfigs.configs) :
        FileConfigs.configs[i].name = FileConfigs.configs[j].name => i = j

\* the inputs hold what was last saved under the name
ShowsLastSaved(name) ==
    /\ last_saved[name] # << >>
    /\ final_side_weight = last_saved[name][1].final_side_weight
    /\ barbell_type = last_saved[name][1].barbell_type
    /\ percent_drop = last_saved[name][1].percent_drop

\* every record of the file is still there, in its place, after the step
RecordsKept ==
    LET old == load_configurations(file).configs
        new == load_configurations(file').configs
    IN  /\ Len(old) <= Len(new)
        /\ SubSeq(new, 1, Len(old)) = old

\* C9: selecting a saved name yields the side weight, barbell type and percent
\* drop most recently saved under that name, and no step changes or removes a
\* record an earlier save stored.
C9_LoadYieldsLastSaved ==
    [][/\ selected_config' # selected_config => ShowsLastSaved(selected_config)'
       /\ RecordsKept]_vars

\* ------------------------------------------------------------------------
\* Properties of two sessions saving (SpecRace)
\* ------------------------------------------------------------------------
AllDone == \A s \in Sessions : pc[s] = "done"

Holds(c) == \E i \in 1..Len(FileConfigs.configs) : FileConfigs.configs[i] = c

\* C10: the store is read, then written, with no lock.  When the two saves do
\* not overlap the file holds both new records; and whenever both are done
\* and the file can be read, it is the text the last writer wrote, the list
\* that writer read plus its own record (last write wins).
C10_LastWriteWins ==
    AllDone =>
        /\ ~overlapped => (FileConfigs.ok /\ \A s \in Sessions : Holds(config[s]))
        /\ FileConfigs.ok =>
              /\ file.text = Dump(configurations[last_writer])
              /\ Holds(config[last_writer])

\* two overlapping saves of different records, after which the file holds one
\* of the two only
C10_Witness ==
    /\ AllDone
    /\ overlapped
    /\ FileConfigs.ok
    /\ config[1] # config[2]
    /\ \E s \in Sessions : ~Holds(config[s])

====
